---- MODULE Spec2Model ----
(***************************************************************************)
(* A model of main.py: the Flask application that bridges an uploaded      *)
(* resume and a job description to three Gemini generation calls and       *)
(* returns the parsed synthesis reply.                                     *)
(*                                                                         *)
(* Requests are served concurrently by the surrounding server; every       *)
(* request runs analyze() top to bottom.  The handler is cut at the places *)
(* where it touches the uploads folder or the backend, so that the         *)
(* interleavings of several requests on the shared folder are visible.     *)
(***************************************************************************)
EXTENDS Naturals, Sequences, FiniteSets, TLC

(***************************************************************************)
(* Bounds of the model.                                                    *)
(***************************************************************************)
\* Number of requests the server has in flight.
NumReq == 2
\* Largest number of pages of an uploaded document.
MaxPages == 2

Reqs == 1..NumReq

(***************************************************************************)
(* JSON texts and values.                                                  *)
(*                                                                         *)
(* A text is a sequence of tokens; a value is a node [k, n, s, m]: k the   *)
(* Python type ("dict", "list", "str", "int", "float"), n the number, s    *)
(* the string, m the members (key, value) of a dict or list.               *)
(***************************************************************************)
Tok(t, s, n) == [t |-> t, s |-> s, n |-> n]
LBrace   == Tok("{", "", 0)
RBrace   == Tok("}", "", 0)
LBracket == Tok("[", "", 0)
RBracket == Tok("]", "", 0)
Colon    == Tok(":", "", 0)
Comma    == Tok(",", "", 0)
TStr(s)  == Tok("str", s, 0)
TInt(n)  == Tok("int", "", n)
\* The literal NaN: no JSON, but a constant Python's decoder accepts.
TNaN     == Tok("NaN", "", 0)
\* Any text that is not the start of a JSON value (prose, a markdown fence).
TProse   == Tok("prose", "", 0)

Node(k, n, s, m) == [k |-> k, n |-> n, s |-> s, m |-> m]
Str(s)    == Node("str", 0, s, <<>>)
Int(n)    == Node("int", n, "", <<>>)
NaNFloat  == Node("float", 0, "nan", <<>>)
Member(key, val) == [key |-> key, val |-> val]
Dict(m)   == Node("dict", 0, "", m)
\* A list's members carry the empty key.
List(vals) == Node("list", 0, "", [i \in 1..Len(vals) |-> Member("", vals[i])])

Tail2(s) == Tail(Tail(s))

ParseFail == [ok |-> FALSE, val |-> Str(""), rest |-> <<>>]
Got(v, rest) == [ok |-> TRUE, val |-> v, rest |-> rest]

\* json.loads: the recursive-descent decoder.  ParseValue returns the
\* value read at the head of the text and the tokens left after it.
RECURSIVE ParseValue(_), ParseMembers(_, _), ParseElements(_, _)
ParseValue(ts) ==
    IF ts = <<>> THEN ParseFail
    ELSE LET h == Head(ts) IN
         CASE h.t = "str" -> Got(Str(h.s), Tail(ts))
           [] h.t = "int" -> Got(Int(h.n), Tail(ts))
           [] h.t = "NaN" -> Got(NaNFloat, Tail(ts))
           [] h.t = "{"   -> IF Len(ts) >= 2 /\ ts[2] = RBrace
                             THEN Got(Dict(<<>>), Tail2(ts))
                             ELSE ParseMembers(Tail(ts), <<>>)
           [] h.t = "["   -> IF Len(ts) >= 2 /\ ts[2] = RBracket
                             THEN Got(List(<<>>), Tail2(ts))
                             ELSE ParseElements(Tail(ts), <<>>)
           [] OTHER       -> ParseFail

ParseMembers(ts, acc) ==
    IF Len(ts) < 2 \/ ts[1].t # "str" \/ ts[2] # Colon THEN ParseFail
    ELSE LET v == ParseValue(Tail2(ts)) IN
         IF ~v.ok \/ v.rest = <<>> THEN ParseFail
         ELSE LET acc2 == Append(acc, Member(ts[1].s, v.val)) IN
              CASE Head(v.rest) = RBrace -> Got(Dict(acc2), Tail(v.rest))
                [] Head(v.rest) = Comma  -> ParseMembers(Tail(v.rest), acc2)
                [] OTHER                 -> ParseFail

ParseElements(ts, acc) ==
    LET v == ParseValue(ts) IN
    IF ~v.ok \/ v.rest = <<>> THEN ParseFail
    ELSE LET acc2 == Append(acc, v.val) IN
         CASE Head(v.rest) = RBracket -> Got(List(acc2), Tail(v.rest))
           [] Head(v.rest) = Comma    -> ParseElements(Tail(v.rest), acc2)
           [] OTHER                   -> ParseFail

\* json.loads(text): raises (ok = FALSE) when no value can be read or
\* tokens follow the value ("Extra data").
json_loads(text) ==
    LET r == ParseValue(text) IN
    IF r.ok /\ r.rest = <<>> THEN [ok |-> TRUE, val |-> r.val]
    ELSE [ok |-> FALSE, val |-> Str("")]

\* json.dumps / jsonify: the encoder (allow_nan is left at its default, so a
\* float nan is written as the literal NaN).
RECURSIVE json_dumps(_), DumpMembers(_, _), DumpElements(_, _)
json_dumps(v) ==
    CASE v.k = "str"   -> <<TStr(v.s)>>
      [] v.k = "int"   -> <<TInt(v.n)>>
      [] v.k = "float" -> <<TNaN>>
      [] v.k = "dict"  -> <<LBrace>> \o DumpMembers(v.m, 1) \o <<RBrace>>
      [] v.k = "list"  -> <<LBracket>> \o DumpElements(v.m, 1) \o <<RBracket>>

DumpMembers(m, i) ==
    IF i > Len(m) THEN <<>>
    ELSE <<TStr(m[i].key), Colon>> \o json_dumps(m[i].val)
         \o (IF i < Len(m) THEN <<Comma>> ELSE <<>>)
         \o DumpMembers(m, i + 1)

DumpElements(m, i) ==
    IF i > Len(m) THEN <<>>
    ELSE json_dumps(m[i].val)
         \o (IF i < Len(m) THEN <<Comma>> ELSE <<>>)
         \o DumpElements(m, i + 1)

\* d[key] of a dict: the last member with the key (a later duplicate wins).
HasKey(d, key) == d.k = "dict" /\ \E i \in 1..Len(d.m) : d.m[i].key = key
Get(d, key) ==
    LET idx == {i \in 1..Len(d.m) : d.m[i].key = key}
    IN d.m[CHOOSE i \in idx : \A j \in idx : j <= i].val

(***************************************************************************)
(* The texts the backend may return from the synthesis call.               *)
(***************************************************************************)
ResultText(score) ==
    <<LBrace, TStr("score"), Colon, score, Comma,
      TStr("summary"), Colon, TStr("Strong match."), Comma,
      TStr("feedback"), Colon, LBrace,
        TStr("verdict"), Colon, TStr("Good fit."), Comma,
        TStr("pursueSkills"), Colon, LBracket, TStr("Go"), RBracket, Comma,
        TStr("nextSteps"), Colon, TStr("Apply."),
      RBrace, RBrace>>

\* {"score": 85, "summary": ..., "feedback": {...}}
TextGood       == ResultText(TInt(85))
\* The same object with "score": 150.
TextOutOfRange == ResultText(TInt(150))
\* ["Go"]
TextList       == <<LBracket, TStr("Go"), RBracket>>
\* NaN
TextNaN        == <<TNaN>>
\* Prose before the object: "Here is the evaluation: {...}"
TextProse      == <<TProse>> \o TextGood
\* An object cut off after its first member: {"score": 85,
TextTruncated  == <<LBrace, TStr("score"), Colon, TInt(85), Comma>>

BackendTexts ==
    {TextGood, TextOutOfRange, TextList, TextNaN, TextProse, TextTruncated}

(***************************************************************************)
(* Configuration (lines 13-30) and the inputs of a request.                *)
(***************************************************************************)
UPLOAD_FOLDER == <<"uploads">>
\* The directories that exist: os.makedirs(UPLOAD_FOLDER) creates the only one.
Dirs == {UPLOAD_FOLDER}

\* A filename as the client sent it, cut at its "/": werkzeug keeps it as is.
Filenames == {<<"cv.pdf">>, <<"resume.pdf">>, <<"docs", "cv.pdf">>}

\* A page of a PDF: extract_text() returns text, returns None or "", or raises.
PageKinds == {"text", "none", "raise"}
SeqsUpTo(S, n) == UNION {[1..k -> S] : k \in 0..n}
\* An uploaded document: PdfReader accepts it or not, and its pages.
Docs == {[readable |-> FALSE, pages |-> <<>>]}
        \cup {[readable |-> TRUE, pages |-> p] : p \in SeqsUpTo(PageKinds, MaxPages)}

\* request.form.get("job_description"): None, "" or a text.
NoJD == [present |-> FALSE, text |-> ""]
JDs == {NoJD, [present |-> TRUE, text |-> ""],
        [present |-> TRUE, text |-> "Python developer"]}

NoDoc == [readable |-> FALSE, pages |-> <<>>]
NoUpload == [filename |-> <<>>, doc |-> NoDoc]
Uploads == {[filename |-> f, doc |-> d] : f \in Filenames, d \in Docs}
GoodJD == [present |-> TRUE, text |-> "Python developer"]
\* request.files and request.form of one POST /analyze: every upload with
\* a job description, and the requests that lack one of the two.
Requests ==
    {[hasResume |-> TRUE, resume |-> u, jd |-> GoodJD] : u \in Uploads}
    \cup {[hasResume |-> FALSE, resume |-> NoUpload, jd |-> j] : j \in JDs}
    \cup {[hasResume |-> TRUE,
           resume |-> [filename |-> <<"cv.pdf">>, doc |-> NoDoc],
           jd |-> j] : j \in JDs \ {GoodJD}}
NoRequest == [hasResume |-> FALSE, resume |-> NoUpload, jd |-> NoJD]

NotInitialized == "Error: AI Client not initialized."

\* The dict get_final_json_analysis dumps when there is no client.
MockResult ==
    Dict(<<Member("score", Int(0)),
           Member("summary", Str("AI Error: Client not connected.")),
           Member("feedback", Dict(<<
               Member("verdict", Str("Could not analyze due to server configuration error.")),
               Member("pursueSkills", List(<<>>)),
               Member("nextSteps", Str("Check server logs."))>>))>>)

\* Messages of the exceptions the handler catches.
ENOENT      == "[Errno 2] No such file or directory"
BackendDown == "backend unavailable"
DecodeError == "Expecting value"
Messages == {ENOENT, BackendDown, DecodeError}

\* jsonify(value): the response body, the value encoded by the same encoder.
\* (Flask may write a dict's keys in sorted order; the decoded value is the
\* same, and nothing here reads the order.)
jsonify(v) == json_dumps(v)

\* jsonify({"error": msg})
ErrorBody(msg) == jsonify(Dict(<<Member("error", Str(msg))>>))

VARIABLES
    apiKey,             \* line 19-24: the key read at startup, "" when unset
    client,             \* line 26-30: "live" or "None"
    fs,                 \* the files under the uploads folder: path -> file
    pc,                 \* where each request's handler stands
    request,            \* the files and form of each request
    pdf_path,           \* analyze's locals
    resume_text,
    parsed_resume,
    parsed_jd,
    final_analysis_raw,
    final_data,
    sent,               \* the prompts each request sent to generate_content
    steps,              \* the pipeline steps each request started, in order
    raised,             \* the step of each request that raised, "" if none
    status,             \* the HTTP status returned, 0 while in flight
    body                \* the response body, as text

vars == <<apiKey, client, fs, pc, request, pdf_path, resume_text, parsed_resume,
          parsed_jd, final_analysis_raw, final_data, sent, steps, raised,
          status, body>>

\* os.getenv("GEMINI_API_KEY"), lines 19-24: an unset key becomes "".
EnvKeys == {"", "AIza-key"}

\* genai.Client(api_key=key), line 27.  The library finds no key to use in
\* an empty one and raises ("Missing key inputs argument"); with a key it
\* returns a client, or raises for a reason of its own.
ClientOutcomes(key) == IF key = "" THEN {"raises"} ELSE {"returns", "raises"}

\* Module load, lines 19-30: only a raise of the constructor leaves
\* client = None.
Startup(key, outcome) ==
    /\ apiKey = key
    /\ client = (IF outcome = "raises" THEN "None" ELSE "live")

Init ==
    /\ \E key \in EnvKeys : \E outcome \in ClientOutcomes(key) : Startup(key, outcome)
    /\ fs = <<>>
    /\ pc = [r \in Reqs |-> "idle"]
    /\ request = [r \in Reqs |-> NoRequest]
    /\ pdf_path = [r \in Reqs |-> <<>>]
    /\ resume_text = [r \in Reqs |-> <<>>]
    /\ parsed_resume = [r \in Reqs |-> ""]
    /\ parsed_jd = [r \in Reqs |-> ""]
    /\ final_analysis_raw = [r \in Reqs |-> <<>>]
    /\ final_data = [r \in Reqs |-> Str("")]
    /\ sent = [r \in Reqs |-> <<>>]
    /\ steps = [r \in Reqs |-> <<>>]
    /\ raised = [r \in Reqs |-> ""]
    /\ status = [r \in Reqs |-> 0]
    /\ body = [r \in Reqs |-> <<>>]

(***************************************************************************)
(* extract_text_from_pdf, lines 40-50.                                     *)
(***************************************************************************)
\* The text of page i of the document request `owner` uploaded.
PageText(owner, i) == [owner |-> owner, page |-> i]

\* The loop of lines 46-47 from page i on: a page that raises ends the loop
\* in the except clause with the text read so far.
RECURSIVE ReadPages(_, _, _)
ReadPages(file, i, text) ==
    IF i > Len(file.doc.pages) THEN text
    ELSE CASE file.doc.pages[i] = "raise" -> text
           [] file.doc.pages[i] = "none"  -> ReadPages(file, i + 1, text \o <<>>)
           [] file.doc.pages[i] = "text"  ->
                  ReadPages(file, i + 1, Append(text, PageText(file.owner, i)))

\* The body of extract_text_from_pdf without its try: what open(), PdfReader
\* or a page raises reaches the caller.
extract_text_unguarded(files, path) ==
    IF path \notin DOMAIN files THEN [raises |-> TRUE, text |-> <<>>]
    ELSE IF ~files[path].doc.readable THEN [raises |-> TRUE, text |-> <<>>]
    ELSE [raises |-> \E i \in 1..Len(files[path].doc.pages) :
                         files[path].doc.pages[i] = "raise",
          text |-> ReadPages(files[path], 1, <<>>)]

\* open() raises when the path is gone and PdfReader when the document is
\* unreadable; the except clause of line 48 catches both.
extract_text_from_pdf(files, path) ==
    IF path \notin DOMAIN files THEN [raises |-> FALSE, text |-> <<>>]
    ELSE IF ~files[path].doc.readable THEN [raises |-> FALSE, text |-> <<>>]
    ELSE [raises |-> FALSE, text |-> ReadPages(files[path], 1, <<>>)]

(***************************************************************************)
(* analyze, lines 119-158.                                                 *)
(***************************************************************************)
Started(r, step) == steps' = [steps EXCEPT ![r] = Append(@, step)]

Respond(r, code, text) ==
    /\ status' = [status EXCEPT ![r] = code]
    /\ body' = [body EXCEPT ![r] = text]
    /\ pc' = [pc EXCEPT ![r] = "done"]

\* The except clause, lines 156-158.
analyze_except(r, step, msg) ==
    /\ raised' = [raised EXCEPT ![r] = step]
    /\ Respond(r, 500, ErrorBody("Analysis failed: " \o msg))

\* A job description only None fails this test; "" passes it.
JDIsNone(jd) == ~jd.present

\* `not jd_text`, line 132: None and "" are both falsy.
JDMissing(jd) == ~jd.present \/ jd.text = ""

\* Lines 124-133: the two input checks, on the request as it arrived.
\* Requests are numbered in the order of their arrival.
analyze_validate(r, rq) ==
    /\ pc[r] = "idle"
    /\ \A q \in Reqs : q < r => pc[q] # "idle"
    /\ request' = [request EXCEPT ![r] = rq]
    /\ IF ~rq.hasResume
       THEN Respond(r, 400, ErrorBody("Resume PDF is required"))
       ELSE IF JDMissing(rq.jd)
       THEN Respond(r, 400, ErrorBody("Job description is required"))
       ELSE /\ pc' = [pc EXCEPT ![r] = "save"]
            /\ UNCHANGED <<status, body>>
    /\ UNCHANGED <<apiKey, client, fs, pdf_path, resume_text, parsed_resume,
                   parsed_jd, final_analysis_raw, final_data, sent, steps, raised>>

\* os.path.join(UPLOAD_FOLDER, f"temp_{filename}"), lines 137-138.
PdfPath(filename) ==
    IF filename = <<>> THEN UPLOAD_FOLDER \o <<"temp_">>
    ELSE UPLOAD_FOLDER \o <<"temp_" \o Head(filename)>> \o Tail(filename)

Parent(path) == SubSeq(path, 1, Len(path) - 1)

\* Lines 137-139: resume_file.save(pdf_path) opens the path, which raises
\* when its directory does not exist, and copies the upload's stream into
\* it, which leaves the stream at its end.
analyze_save(r) ==
    /\ pc[r] = "save"
    /\ Started(r, "save")
    /\ LET path == PdfPath(request[r].resume.filename) IN
       /\ pdf_path' = [pdf_path EXCEPT ![r] = path]
       /\ IF Parent(path) \in Dirs
          THEN /\ fs' = (path :> [owner |-> r, doc |-> request[r].resume.doc]) @@ fs
               /\ request' = [request EXCEPT ![r].resume.doc = NoDoc]
               /\ pc' = [pc EXCEPT ![r] = "extract"]
               /\ UNCHANGED <<raised, status, body>>
          ELSE /\ analyze_except(r, "save", ENOENT)
               /\ UNCHANGED <<fs, request>>
    /\ UNCHANGED <<apiKey, client, resume_text, parsed_resume, parsed_jd,
                   final_analysis_raw, final_data, sent>>

\* Line 140.
analyze_extract(r) ==
    /\ pc[r] = "extract"
    /\ Started(r, "extract")
    /\ LET got == extract_text_from_pdf(fs, pdf_path[r]) IN
       IF got.raises
       THEN /\ analyze_except(r, "extract", ENOENT)
            /\ UNCHANGED resume_text
       ELSE /\ resume_text' = [resume_text EXCEPT ![r] = got.text]
            /\ pc' = [pc EXCEPT ![r] = "parse_resume"]
            /\ UNCHANGED <<raised, status, body>>
    /\ UNCHANGED <<apiKey, client, fs, request, pdf_path, parsed_resume, parsed_jd,
                   final_analysis_raw, final_data, sent>>

\* `if not client`, lines 59, 67 and 91.
NoClient == client = "None"

\* A call that is sent again when it gets no reply at once.
GenerateWithRetry(r, prompt) == sent' = [sent EXCEPT ![r] = @ \o <<prompt, prompt>>]

\* client.models.generate_content: the prompt goes out.
Generate(r, prompt) == sent' = [sent EXCEPT ![r] = Append(@, prompt)]

\* Line 143 and parse_resume, lines 56-62.
parse_resume(r) ==
    /\ pc[r] = "parse_resume"
    /\ Started(r, "parse_resume")
    /\ LET prompt == [call |-> "parse_resume", about |-> resume_text[r]] IN
       IF NoClient
       THEN /\ parsed_resume' = [parsed_resume EXCEPT ![r] = NotInitialized]
            /\ pc' = [pc EXCEPT ![r] = "parse_jd"]
            /\ UNCHANGED <<sent, raised, status, body>>
       ELSE /\ Generate(r, prompt)
            /\ \/ /\ parsed_resume' = [parsed_resume EXCEPT ![r] = "- Skills: Python"]
                  /\ pc' = [pc EXCEPT ![r] = "parse_jd"]
                  /\ UNCHANGED <<raised, status, body>>
               \/ /\ analyze_except(r, "parse_resume", BackendDown)
                  /\ UNCHANGED parsed_resume
    /\ UNCHANGED <<apiKey, client, fs, request, pdf_path, resume_text, parsed_jd,
                   final_analysis_raw, final_data>>

\* Line 144 and parse_job_description, lines 64-70.
parse_job_description(r) ==
    /\ pc[r] = "parse_jd"
    /\ Started(r, "parse_jd")
    /\ LET prompt == [call |-> "parse_jd", about |-> request[r].jd.text] IN
       IF NoClient
       THEN /\ parsed_jd' = [parsed_jd EXCEPT ![r] = NotInitialized]
            /\ pc' = [pc EXCEPT ![r] = "synthesize"]
            /\ UNCHANGED <<sent, raised, status, body>>
       ELSE /\ Generate(r, prompt)
            /\ \/ /\ parsed_jd' = [parsed_jd EXCEPT ![r] = "- Required: Python"]
                  /\ pc' = [pc EXCEPT ![r] = "synthesize"]
                  /\ UNCHANGED <<raised, status, body>>
               \/ /\ analyze_except(r, "parse_jd", BackendDown)
                  /\ UNCHANGED parsed_jd
    /\ UNCHANGED <<apiKey, client, fs, request, pdf_path, resume_text, parsed_resume,
                   final_analysis_raw, final_data>>

\* Line 147 and get_final_json_analysis, lines 72-108.
get_final_json_analysis(r) ==
    /\ pc[r] = "synthesize"
    /\ Started(r, "synthesize")
    /\ LET prompt == [call |-> "synthesize", about |-> <<parsed_resume[r], parsed_jd[r]>>] IN
       IF NoClient
       THEN /\ final_analysis_raw' = [final_analysis_raw EXCEPT ![r] = json_dumps(MockResult)]
            /\ pc' = [pc EXCEPT ![r] = "json_parse"]
            /\ UNCHANGED <<sent, raised, status, body>>
       ELSE /\ Generate(r, prompt)
            /\ \/ \E text \in BackendTexts :
                     /\ final_analysis_raw' = [final_analysis_raw EXCEPT ![r] = text]
                     /\ pc' = [pc EXCEPT ![r] = "json_parse"]
                     /\ UNCHANGED <<raised, status, body>>
               \/ /\ analyze_except(r, "synthesize", BackendDown)
                  /\ UNCHANGED final_analysis_raw
    /\ UNCHANGED <<apiKey, client, fs, request, pdf_path, resume_text, parsed_resume,
                   parsed_jd, final_data>>

\* Line 148: json.loads(final_analysis_raw).
analyze_parse_json(r) ==
    /\ pc[r] = "json_parse"
    /\ Started(r, "json_parse")
    /\ LET parsed == json_loads(final_analysis_raw[r]) IN
       IF parsed.ok
       THEN /\ final_data' = [final_data EXCEPT ![r] = parsed.val]
            /\ pc' = [pc EXCEPT ![r] = "cleanup"]
            /\ UNCHANGED <<raised, status, body>>
       ELSE /\ analyze_except(r, "json_parse", DecodeError)
            /\ UNCHANGED final_data
    /\ UNCHANGED <<apiKey, client, fs, request, pdf_path, resume_text, parsed_resume,
                   parsed_jd, final_analysis_raw, sent>>

\* Line 151: os.path.exists(pdf_path).
analyze_cleanup_exists(r) ==
    /\ pc[r] = "cleanup"
    /\ Started(r, "cleanup")
    /\ pc' = [pc EXCEPT ![r] = IF pdf_path[r] \in DOMAIN fs THEN "remove" ELSE "respond"]
    /\ UNCHANGED <<apiKey, client, fs, request, pdf_path, resume_text, parsed_resume,
                   parsed_jd, final_analysis_raw, final_data, sent, raised, status, body>>

\* Line 152: os.remove(pdf_path) raises when the file is gone by now.
analyze_cleanup_remove(r) ==
    /\ pc[r] = "remove"
    /\ IF pdf_path[r] \in DOMAIN fs
       THEN /\ fs' = [p \in DOMAIN fs \ {pdf_path[r]} |-> fs[p]]
            /\ pc' = [pc EXCEPT ![r] = "respond"]
            /\ UNCHANGED <<raised, status, body>>
       ELSE /\ analyze_except(r, "cleanup", ENOENT)
            /\ UNCHANGED fs
    /\ UNCHANGED <<apiKey, client, request, pdf_path, resume_text, parsed_resume,
                   parsed_jd, final_analysis_raw, final_data, sent, steps>>

\* Line 154: jsonify(final_data), with status 200.
analyze_return(r) ==
    /\ pc[r] = "respond"
    /\ Respond(r, 200, jsonify(final_data[r]))
    /\ UNCHANGED <<apiKey, client, fs, request, pdf_path, resume_text, parsed_resume,
                   parsed_jd, final_analysis_raw, final_data, sent, steps, raised>>

Next ==
    \E r \in Reqs :
        \/ \E rq \in Requests : analyze_validate(r, rq)
        \/ analyze_save(r)
        \/ analyze_extract(r)
        \/ parse_resume(r)
        \/ parse_job_description(r)
        \/ get_final_json_analysis(r)
        \/ analyze_parse_json(r)
        \/ analyze_cleanup_exists(r)
        \/ analyze_cleanup_remove(r)
        \/ analyze_return(r)

Spec == Init /\ [][Next]_vars

(***************************************************************************)
(* What the claims speak of.                                               *)
(***************************************************************************)
IsPrefix(s, t) == Len(s) <= Len(t) /\ \A i \in 1..Len(s) : s[i] = t[i]
Contains(s, e) == \E i \in 1..Len(s) : s[i] = e

\* The AnalysisResult schema: { score: integer 0-100, summary: string,
\* feedback: { verdict: string, pursueSkills: array of string,
\* nextSteps: string } }.
IsString(v) == v.k = "str"
IsStringList(v) == v.k = "list" /\ \A i \in 1..Len(v.m) : IsString(v.m[i].val)
IsAnalysisResult(v) ==
    /\ v.k = "dict"
    /\ HasKey(v, "score") /\ HasKey(v, "summary") /\ HasKey(v, "feedback")
    /\ Get(v, "score").k = "int" /\ Get(v, "score").n \in 0..100
    /\ IsString(Get(v, "summary"))
    /\ LET f == Get(v, "feedback") IN
       /\ f.k = "dict"
       /\ HasKey(f, "verdict") /\ HasKey(f, "pursueSkills") /\ HasKey(f, "nextSteps")
       /\ IsString(Get(f, "verdict"))
       /\ IsStringList(Get(f, "pursueSkills"))
       /\ IsString(Get(f, "nextSteps"))

\* A text is JSON (RFC 8259) when it decodes and holds no NaN literal.
IsJSON(text) == json_loads(text).ok /\ ~Contains(text, TNaN)

\* A response body conforms when it is JSON and decodes to an AnalysisResult.
Conforms(text) == IsJSON(text) /\ IsAnalysisResult(json_loads(text).val)

\* The request carries a resume file and a non-empty job description.
Valid(r) ==
    /\ pc[r] # "idle"
    /\ request[r].hasResume
    /\ request[r].jd.present /\ request[r].jd.text # ""

Answered(r) == pc[r] = "done"

\* The temp files request r wrote that are still in the uploads folder.
TempFilesOf(r) == {p \in DOMAIN fs : fs[p].owner = r}

\* "Analysis failed: <message>" for one of the messages an exception carries.
IsAnalysisFailed(text) ==
    \E m \in Messages : text = ErrorBody("Analysis failed: " \o m)

\* The states of section 4.4, read off the handler's position.
Stage(r) ==
    CASE raised[r] # ""                             -> "Failed"
      [] pc[r] = "idle"                             -> "Idle"
      [] status[r] = 400                            -> "Rejected"
      [] pc[r] \in {"save", "extract", "parse_resume"} -> "Start"
      [] pc[r] = "parse_jd"                         -> "ResumeParsed"
      [] pc[r] \in {"synthesize", "json_parse"}     -> "JobParsed"
      [] OTHER                                      -> "Scored"

PipelineOrder ==
    <<"save", "extract", "parse_resume", "parse_jd", "synthesize", "json_parse",
      "cleanup">>
CallOrder == <<"parse_resume", "parse_jd", "synthesize">>
Calls(r) == [i \in 1..Len(sent[r]) |-> sent[r][i].call]

(***************************************************************************)
(* C1: every 200 response of POST /analyze carries a body that is an       *)
(* AnalysisResult (integer score in 0..100, string summary, feedback with  *)
(* string verdict, list-of-string pursueSkills, string nextSteps),         *)
(* whatever text the backend returned from the synthesis call.             *)
(***************************************************************************)
C1_Every200IsAnalysisResult ==
    \A r \in Reqs : status[r] = 200 => Conforms(body[r])

(***************************************************************************)
(* C2: with GEMINI_API_KEY absent at startup, every valid request that has *)
(* been answered, unless saving its upload failed, got 200 with a          *)
(* conforming body: the canned result, whose score is 0 and whose summary  *)
(* reports that the client is not connected.  None got 500.                *)
(***************************************************************************)
C2_MissingKeyAlways200 ==
    apiKey = "" =>
        \A r \in Reqs :
            Valid(r) /\ Answered(r) /\ raised[r] # "save" =>
                /\ status[r] = 200
                /\ Conforms(body[r])
                /\ Get(json_loads(body[r]).val, "score") = Int(0)
                /\ Get(json_loads(body[r]).val, "summary") = Get(MockResult, "summary")

(***************************************************************************)
(* C3, as stated: a request without the resume file is answered 400        *)
(* "Resume PDF is required" and a request whose job description is absent  *)
(* or empty is answered 400 "Job description is required", either of them  *)
(* before any pipeline work.                                               *)
(***************************************************************************)
NoPipelineWork(r) ==
    /\ steps[r] = <<>>
    /\ sent[r] = <<>>
    /\ pdf_path[r] = <<>>
    /\ resume_text[r] = <<>>
    /\ TempFilesOf(r) = {}

JDAbsentOrEmpty(r) == ~request[r].jd.present \/ request[r].jd.text = ""

C3_EveryMissingJDGetsJDError ==
    \A r \in Reqs :
        /\ pc[r] # "idle" /\ ~request[r].hasResume =>
              /\ Answered(r) /\ status[r] = 400
              /\ body[r] = ErrorBody("Resume PDF is required")
              /\ NoPipelineWork(r)
        /\ pc[r] # "idle" /\ JDAbsentOrEmpty(r) =>
              /\ Answered(r) /\ status[r] = 400
              /\ body[r] = ErrorBody("Job description is required")
              /\ NoPipelineWork(r)

(***************************************************************************)
(* C3, amended: a request without the resume file is answered 400 "Resume  *)
(* PDF is required", whatever its job description; a request with the file *)
(* whose job description is absent or empty is answered 400 "Job           *)
(* description is required"; in both cases the request has started no      *)
(* pipeline step: it wrote no temp file, extracted no text and sent no     *)
(* prompt.  Only such requests are answered 400.                           *)
(***************************************************************************)
C3_RejectedBeforeAnyWork ==
    \A r \in Reqs :
        /\ pc[r] # "idle" /\ ~request[r].hasResume =>
              /\ Answered(r) /\ status[r] = 400
              /\ body[r] = ErrorBody("Resume PDF is required")
              /\ NoPipelineWork(r)
        /\ pc[r] # "idle" /\ request[r].hasResume /\ JDAbsentOrEmpty(r) =>
              /\ Answered(r) /\ status[r] = 400
              /\ body[r] = ErrorBody("Job description is required")
              /\ NoPipelineWork(r)
        /\ status[r] = 400 => ~Valid(r)

\* Both rejections have happened, the second for an empty job description,
\* while the uploads folder holds the temp file of the other request.
C3_Witness ==
    \E r, q \in Reqs :
        /\ body[r] = ErrorBody("Job description is required")
        /\ request[r].jd.present
        /\ TempFilesOf(q) # {}

(***************************************************************************)
(* C4: once a valid request has been answered, with 200 or with 500, the   *)
(* temp file it wrote is no longer in the uploads folder.                  *)
(***************************************************************************)
C4_TempFileGoneAfterResponse ==
    \A r \in Reqs : Valid(r) /\ Answered(r) => TempFilesOf(r) = {}

(***************************************************************************)
(* C5: no step of a request overwrites or deletes the document of another  *)
(* request that is still in flight, and the text a request extracts comes  *)
(* from the document that request uploaded.                                *)
(***************************************************************************)
InFlight(r) == pc[r] \notin {"idle", "done"}

C5_RequestsDoNotInterfere ==
    [][\A r \in Reqs :
          pc'[r] # pc[r] =>
              /\ \A p \in DOMAIN fs :
                    fs[p].owner # r /\ InFlight(fs[p].owner) =>
                        p \in DOMAIN fs' /\ fs'[p] = fs[p]
              /\ \A i \in 1..Len(resume_text'[r]) : resume_text'[r][i].owner = r]_vars

(***************************************************************************)
(* C6: when the synthesis reply is not valid JSON, the request is answered *)
(* 500 with an error that reads "Analysis failed: ...", never 200, and     *)
(* sends no prompt after the reply.                                        *)
(***************************************************************************)
C6_NotJSONEnds500 ==
    \A r \in Reqs :
        Contains(steps[r], "json_parse") /\ ~IsJSON(final_analysis_raw[r]) =>
            /\ Answered(r)
            /\ status[r] = 500
            /\ IsAnalysisFailed(body[r])
            /\ Len(sent[r]) = 3

(***************************************************************************)
(* C7: extraction never fails the request.  The extract step always hands  *)
(* over to parse-resume with no response yet and nothing raised; and when  *)
(* the document cannot be opened (the path is gone), cannot be parsed      *)
(* (PdfReader rejects it) or no page read yields text, the text is empty.  *)
(***************************************************************************)
\* No page yields text before the pages end or one of them raises.
RECURSIVE NoPageYieldsText(_, _)
NoPageYieldsText(pages, i) ==
    \/ i > Len(pages)
    \/ pages[i] = "raise"
    \/ pages[i] = "none" /\ NoPageYieldsText(pages, i + 1)

YieldsNoText(files, path) ==
    \/ path \notin DOMAIN files
    \/ ~files[path].doc.readable
    \/ NoPageYieldsText(files[path].doc.pages, 1)

C7_ExtractionFailureNonFatal ==
    [][\A r \in Reqs :
          pc[r] = "extract" /\ pc'[r] # "extract" =>
              /\ pc'[r] = "parse_resume"
              /\ status'[r] = 0
              /\ raised'[r] = ""
              /\ YieldsNoText(fs, pdf_path[r]) <=> resume_text'[r] = <<>>]_vars

\* A request whose extraction gave the empty text went through all three
\* generation calls and was answered 200.
C7_Witness ==
    \E r \in Reqs :
        /\ status[r] = 200
        /\ resume_text[r] = <<>>
        /\ Calls(r) = CallOrder

(***************************************************************************)
(* C8: when the pipeline has parsed the synthesis reply and the removal of *)
(* the temp file then fails, the request is still answered 200 with the    *)
(* parsed result.                                                          *)
(***************************************************************************)
C8_CleanupFailureNotEscalated ==
    \A r \in Reqs :
        Answered(r) /\ Contains(steps[r], "cleanup") =>
            status[r] = 200 /\ body[r] = jsonify(final_data[r])

(***************************************************************************)
(* C9: within a request the steps run in the order save, extract, parse    *)
(* resume, parse job description, synthesize, JSON parse, cleanup; the     *)
(* prompts go out in the order of the three generation calls, each at most *)
(* once and only in its own step; a step that raised is the last step of   *)
(* its request, which is answered 500; and the request moves Start ->      *)
(* ResumeParsed -> JobParsed -> Scored, or to Failed.                      *)
(***************************************************************************)
StageNext(a, b) ==
    \/ a = b
    \/ b = "Failed" /\ a \in {"Start", "ResumeParsed", "JobParsed", "Scored"}
    \/ <<a, b>> \in {<<"Idle", "Rejected">>, <<"Idle", "Start">>,
                     <<"Start", "ResumeParsed">>, <<"ResumeParsed", "JobParsed">>,
                     <<"JobParsed", "Scored">>}

StepsInOrder(r) ==
    /\ IsPrefix(steps[r], PipelineOrder)
    /\ IsPrefix(Calls(r), CallOrder)
    /\ \A i \in 1..Len(sent[r]) : Contains(steps[r], sent[r][i].call)
    /\ raised[r] # "" =>
          /\ Answered(r) /\ status[r] = 500
          /\ steps[r] # <<>> /\ steps[r][Len(steps[r])] = raised[r]

C9_StepsStrictlySequential ==
    [][\A r \in Reqs :
          /\ StepsInOrder(r)'
          /\ StageNext(Stage(r), Stage(r)')
          /\ raised[r] # "" => steps'[r] = steps[r] /\ sent'[r] = sent[r]
          /\ Len(steps'[r]) <= Len(steps[r]) + 1
          /\ Len(sent'[r]) <= Len(sent[r]) + 1]_vars

\* One request failed in synthesis after two calls had returned, and the
\* other went through every step and was answered 200.
C9_Witness ==
    \E r, q \in Reqs :
        /\ raised[r] = "synthesize" /\ Calls(r) = CallOrder
        /\ status[q] = 200 /\ steps[q] = PipelineOrder /\ Calls(q) = CallOrder

(***************************************************************************)
(* C10: with no client, a request sends no prompt, parse_resume and        *)
(* parse_job_description return "Error: AI Client not initialized.",       *)
(* get_final_json_analysis returns the canned result with score 0, and the *)
(* request, once its synthesis step has run, reaches Scored and is         *)
(* answered 200.                                                           *)
(***************************************************************************)
C10_NoClientNoCallsAnd200 ==
    NoClient =>
        \A r \in Reqs :
            /\ sent[r] = <<>>
            /\ Contains(steps[r], "parse_jd") => parsed_resume[r] = NotInitialized
            /\ Contains(steps[r], "synthesize") => parsed_jd[r] = NotInitialized
            /\ Contains(steps[r], "json_parse") =>
                  /\ final_analysis_raw[r] = json_dumps(MockResult)
                  /\ Answered(r) =>
                        /\ Stage(r) = "Scored"
                        /\ status[r] = 200
                        /\ body[r] = jsonify(MockResult)
====
